---- MODULE Spec2Model ----
(***************************************************************************)
(* Model of the orchestration core of server-agents.js: the Response Gate  *)
(* (ResponseManager) as used by ConversationAgent.handleTranscript, the    *)
(* A2A task lifecycle (A2ATask / A2AProtocolHandler) and the voice         *)
(* activity segmenter (SpeechAgent.handleAudio / processAudio).            *)
(*                                                                         *)
(* Node.js runs every callback to its next await as one atomic step, so    *)
(* each action below is the synchronous part of one callback: a bus event  *)
(* handler, a timer callback, or the continuation after an awaited call.   *)
(***************************************************************************)
EXTENDS Integers, Sequences, FiniteSets, TLC

\* ------------------------------------------------------------------ bounds
MaxHandlers == 2      \* transcript handler instances that may be started
MaxTicks == 3         \* clock advances
MaxTasks == 2         \* tasks created by sendTask
MaxHistory == 2       \* history length up to which bus events reach a task
MaxTaskTicks == 1     \* clock advances while tasks run
MaxFrames == 3        \* audio frames fed over all sessions
MaxSubscribers == 3   \* callbacks subscribed to the bus
MaxIsoFrames == 2     \* audio frames fed while the gate's operations run as well
MaxRegistrations == 2 \* registerAgent calls
MaxResponses == 3     \* 'response:ready' events

\* ------------------------------------------------------- program constants
DEBOUNCE_GAP == 1500          \* handleTranscript: shouldDebounce(sessionId, 1500)
SPEECH_THRESHOLD == 2         \* 0.02, in hundredths of full scale
MIN_AUDIO_BYTES == 3200       \* processAudio: audioBuffer.length < 3200

Sessions == {"s1", "s2"}
Handlers == 1..MaxHandlers
Absent == -1                  \* a Map without an entry for the key / null
Null == "<null>"              \* null / undefined

VARIABLES
  now,                \* Date.now()
  pendingResponses,   \* ResponseManager.pendingResponses: session -> entry {locked: true} present
  lastResponseTime,   \* ResponseManager.lastResponseTime: session -> timestamp or Absent
  handlers,           \* handleTranscript invocations: h -> [pc, session, locks, unlocks, responses]
  tasks,              \* A2AProtocolHandler.tasks: task id -> index of the task object
  taskObjs,           \* the A2ATask objects, in creation order
  audioBuffers,       \* SpeechAgent.audioBuffers: session -> sequence of frames
  isSpeaking,         \* SpeechAgent.isSpeaking
  isProcessing,       \* SpeechAgent.isProcessing
  silenceTimers,      \* SpeechAgent.silenceTimers: session -> a silence timer is pending
  noAudioTimers,      \* SpeechAgent.noAudioTimers: session -> [has, pending]
  transcribing,       \* flushes awaiting this.transcribe(): session -> sequence of utterances
  flushes,            \* every flush so far: session -> sequence of [frames, kind]
  segment,            \* frames accepted since the session entered Speaking or last tried a flush
  fed,                \* frames published on 'audio:received': session -> [n, levels]
  accepted,           \* ids of the frames ever pushed onto the session's buffer
  stops,              \* session -> an 'audio:process_now' has been handled
  nframes,            \* frames fed so far (identifies frames)
  sessions,           \* OrchestratorAgent.sessions: session -> "none" (no connection yet),
                      \*   "open" (entry present) or "closed" (entry removed on close)
  subscribers,        \* MessageBus.subscribers: event -> array of callbacks
  published,          \* the last publish call: its event, data, callbacks and outcome
  invoked,            \* the callbacks that call invoked, in order, with their argument
  served,             \* the HTTP request of the A2A API served last, and what it led to
  readyState,         \* ws.readyState of each connection's WebSocket, by its session
  wire,               \* the ws.send calls made for the last publish, in order
  agentCards,         \* A2AProtocolHandler.agents as registerAgent fills it: agent id -> card
  skillHandlers,      \* A2AProtocolHandler.agentHandlers as registerAgent fills it
  registrations,      \* the registerAgent calls made so far, in order
  dispatched,         \* the handler lookup of the last sendTask
  skillCall,          \* a sendTask whose skill handler belongs to an agent of the voice
                      \*   pipeline: [pc, skillId, sessionId]
  ttsSpeaking,        \* SpeechAgent.isSpeaking under the key `tts_${sessionId}`
  speech,             \* generateSpeech invocations, one per 'response:ready': [session, text, pc]
  echo                \* session -> the suppress values of its 'client:echo_suppress' events

gateVars == <<pendingResponses, lastResponseTime, handlers>>
taskVars == <<tasks, taskObjs>>
speechVars == <<audioBuffers, isSpeaking, isProcessing, silenceTimers, noAudioTimers,
                transcribing, flushes, segment, fed, accepted, stops, nframes>>
segVars == <<speechVars, sessions>>
busVars == <<subscribers, published, invoked>>
apiVars == <<served>>
wsVars == <<readyState, wire>>
regVars == <<agentCards, skillHandlers, registrations, dispatched>>
skillVars == <<skillCall>>
ttsVars == <<ttsSpeaking, speech, echo>>
vars == <<now, gateVars, taskVars, segVars, busVars, apiVars, wsVars, regVars, skillVars, ttsVars>>

\* ------------------------------------------------------------------- clock
\* Date.now() starts at 1 and advances in steps of half a second.
TickSteps == {500}

Tick(maxTicks) ==
  /\ \E d \in TickSteps : now + d <= 1 + maxTicks * d /\ now' = now + d
  /\ UNCHANGED <<gateVars, taskVars, segVars, busVars, apiVars, wsVars, regVars, skillVars, ttsVars>>

\* ======================================================== RESPONSE MANAGER
\* pendingResponses[s] = TRUE models an entry { locked: true, queue: [] };
\* FALSE models no entry (the code never stores an unlocked entry).

canRespond(s) == IF ~pendingResponses[s] THEN TRUE ELSE FALSE

lock(pr, s) == [pr EXCEPT ![s] = TRUE]

\* An unlock that clears the pending entry of every session.
unlockPendingAll(pr, s) == [t \in DOMAIN pr |-> FALSE]

unlockPending(pr, s) == [pr EXCEPT ![s] = FALSE]

unlockTime(lrt, s) == [lrt EXCEPT ![s] = now]

\* A shouldDebounce that still debounces at a gap of exactly minGapMs.
shouldDebounceInclusive(s, minGapMs) ==
  IF lastResponseTime[s] = Absent \/ lastResponseTime[s] = 0 THEN FALSE
  ELSE (now - lastResponseTime[s]) <= minGapMs

shouldDebounce(s, minGapMs) ==
  IF lastResponseTime[s] = Absent \/ lastResponseTime[s] = 0 THEN FALSE
  ELSE (now - lastResponseTime[s]) < minGapMs

\* ====================================================== CONVERSATION AGENT
\* Transcripts and the four noise patterns handleTranscript tests them with.
Transcripts == {"play jazz", "um", "a"}
TooShort == {"a"}                      \* cleanText.length < 2
NoisePatterns == {"um"}                \* matches one of noisePatterns
IsNoise(text) == text \in TooShort \/ text \in NoisePatterns

\* Outcome of the intent-detection call: it throws, or yields an intent.
SpotifyIntents == {"play_music", "pause", "resume", "next", "previous",
                   "volume", "current_track", "play_mood"}
Intents == SpotifyIntents \cup {"chat", "unmapped"}
IntentOutcomes == Intents \cup {"throw"}
CallOutcomes == {"ok", "throw"}

\* unlockedAt is the time of the handler's call of responseManager.unlock.
InitHandler == [pc |-> "idle", session |-> "s1", locks |-> 0, unlocks |-> 0,
                unlockedAt |-> Absent, responses |-> 0]

\* handleTranscript up to its first await (openai.chat.completions.create).
handleTranscriptStart(h, s, text) ==
  /\ handlers[h].pc = "idle"
  /\ \A g \in Handlers : g < h => handlers[g].pc # "idle"
  /\ IF IsNoise(text) \/ shouldDebounce(s, DEBOUNCE_GAP)
       THEN /\ handlers' = [handlers EXCEPT ![h] = [@ EXCEPT !.pc = "done", !.session = s]]
            /\ UNCHANGED <<pendingResponses, lastResponseTime>>
       ELSE /\ pendingResponses' = lock(pendingResponses, s)
            /\ handlers' = [handlers EXCEPT ![h] =
                              [@ EXCEPT !.pc = "intent", !.session = s, !.locks = @ + 1]]
            /\ UNCHANGED lastResponseTime

\* A catch block that publishes the fallback but forgets the unlock.
handleTranscriptCatchNoUnlock(h) ==
  /\ handlers' = [handlers EXCEPT ![h] = [@ EXCEPT !.pc = "done", !.responses = @ + 1]]
  /\ UNCHANGED <<pendingResponses, lastResponseTime>>

\* The catch block of handleTranscript: publish the fallback and unlock.
handleTranscriptCatch(h) ==
  /\ pendingResponses' = unlockPending(pendingResponses, handlers[h].session)
  /\ lastResponseTime' = unlockTime(lastResponseTime, handlers[h].session)
  /\ handlers' = [handlers EXCEPT ![h] =
                    [@ EXCEPT !.pc = "done", !.unlocks = @ + 1, !.unlockedAt = now,
                               !.responses = @ + 1]]

\* routeIntent: every Spotify intent publishes 'spotify:command', whose
\* subscriber handleCommand runs to its first await; 'chat' and any other
\* action fall to the default branch, which awaits generateChatResponse.
routeIntent(h, intent) ==
  /\ handlers' = [handlers EXCEPT ![h].pc =
                    IF intent \in SpotifyIntents THEN "spotify" ELSE "chat"]
  /\ UNCHANGED <<pendingResponses, lastResponseTime>>

\* Continuation of handleTranscript after the intent-detection call.
handleTranscriptIntent(h, outcome) ==
  /\ handlers[h].pc = "intent"
  /\ IF outcome = "throw" THEN handleTranscriptCatch(h) ELSE routeIntent(h, outcome)

\* handleSpotifyResult: publish 'response:ready', then unlock.
handleSpotifyResult(h) ==
  /\ pendingResponses' = unlockPending(pendingResponses, handlers[h].session)
  /\ lastResponseTime' = unlockTime(lastResponseTime, handlers[h].session)
  /\ handlers' = [handlers EXCEPT ![h] =
                    [@ EXCEPT !.pc = "done", !.unlocks = @ + 1, !.unlockedAt = now,
                               !.responses = @ + 1]]

\* Continuation of SpotifyAgent.handleCommand after its awaited Spotify calls:
\* both the try and the catch branch publish 'spotify:result'.
handleCommand(h, outcome) ==
  /\ handlers[h].pc = "spotify"
  /\ handleSpotifyResult(h)

\* A generateChatResponse that unlocks without publishing the reply.
generateChatResponseSilent(h) ==
  /\ pendingResponses' = unlockPending(pendingResponses, handlers[h].session)
  /\ lastResponseTime' = unlockTime(lastResponseTime, handlers[h].session)
  /\ handlers' = [handlers EXCEPT ![h] =
                    [@ EXCEPT !.pc = "done", !.unlocks = @ + 1, !.unlockedAt = now]]

\* generateChatResponse after its awaited completion call returned.
generateChatResponse(h) ==
  /\ pendingResponses' = unlockPending(pendingResponses, handlers[h].session)
  /\ lastResponseTime' = unlockTime(lastResponseTime, handlers[h].session)
  /\ handlers' = [handlers EXCEPT ![h] =
                    [@ EXCEPT !.pc = "done", !.unlocks = @ + 1, !.unlockedAt = now,
                               !.responses = @ + 1]]

\* Continuation of the chat branch: the reply is published and the session
\* unlocked, or the error reaches the catch block of handleTranscript.
handleTranscriptChat(h, outcome) ==
  /\ handlers[h].pc = "chat"
  /\ IF outcome = "throw" THEN handleTranscriptCatch(h) ELSE generateChatResponse(h)

SpeechTranscribed ==
  /\ \E h \in Handlers, s \in Sessions, text \in Transcripts : handleTranscriptStart(h, s, text)
  /\ UNCHANGED <<now, taskVars, segVars, busVars, apiVars, wsVars, regVars, skillVars, ttsVars>>

IntentReturns ==
  /\ \E h \in Handlers, o \in IntentOutcomes : handleTranscriptIntent(h, o)
  /\ UNCHANGED <<now, taskVars, segVars, busVars, apiVars, wsVars, regVars, skillVars, ttsVars>>

SpotifyReturns ==
  /\ \E h \in Handlers, o \in CallOutcomes : handleCommand(h, o)
  /\ UNCHANGED <<now, taskVars, segVars, busVars, apiVars, wsVars, regVars, skillVars, ttsVars>>

ChatReturns ==
  /\ \E h \in Handlers, o \in CallOutcomes : handleTranscriptChat(h, o)
  /\ UNCHANGED <<now, taskVars, segVars, busVars, apiVars, wsVars, regVars, skillVars, ttsVars>>

GateTick == Tick(MaxTicks)

\* ============================================================= MESSAGE BUS
\* Events with one subscriber per client connection, and the data published.
Events == {"client:transcript", "client:audio"}
\* The events a connection forwards to its client (sendToClient).
ClientEvents == Events \cup {"client:listening_state", "client:echo_suppress"}
BusData == {"hello", "bye"}

NoPublish == [event |-> "<none>", data |-> "<none>", handlers |-> << >>, threw |-> FALSE]

RECURSIVE CountSubscribers(_)
CountSubscribers(E) ==
  IF E = {} THEN 0
  ELSE LET e == CHOOSE x \in E : TRUE
       IN Len(subscribers[e]) + CountSubscribers(E \ {e})

\* subscribe(event, callback). A callback is [id, throws]: throws tells whether
\* a call of it throws synchronously.
subscribe(event, callback) ==
  /\ subscribers' = [subscribers EXCEPT ![event] = Append(@, callback)]
  /\ UNCHANGED <<published, invoked>>

\* handlers.forEach(handler => handler(data)): the calls made, in order. A
\* callback that throws ends the loop, the exception leaving forEach.
RECURSIVE forEach(_, _)
forEach(hs, data) ==
  IF hs = << >> THEN << >>
  ELSE IF Head(hs).throws
         THEN <<[callback |-> Head(hs).id, data |-> data]>>
         ELSE <<[callback |-> Head(hs).id, data |-> data]>> \o forEach(Tail(hs), data)

\* publish(event, data)
publish(event, data) ==
  LET hs == subscribers[event]
  IN /\ invoked' = forEach(hs, data)
     /\ published' = [event |-> event, data |-> data, handlers |-> hs,
                      threw |-> \E n \in DOMAIN hs : hs[n].throws]
     /\ UNCHANGED subscribers

Subscribe ==
  /\ CountSubscribers(Events) < MaxSubscribers
  /\ \E e \in Events, b \in BOOLEAN :
       subscribe(e, [id |-> CountSubscribers(Events) + 1, throws |-> b])
  /\ UNCHANGED <<now, gateVars, taskVars, segVars, apiVars, wsVars, regVars, skillVars, ttsVars>>

Publish ==
  /\ \E e \in Events, d \in BusData : publish(e, d)
  /\ UNCHANGED <<now, gateVars, taskVars, segVars, apiVars, wsVars, regVars, skillVars, ttsVars>>

BusNext == Subscribe \/ Publish

\* ======================================================== A2A API REQUESTS
\* An HTTP request of the A2A API. surface is "rest" (the /api/a2a/... routes)
\* or "rpc" (POST /api/a2a/rpc with body {jsonrpc, id, method, params}); the
\* REST routes are named by the method they stand for. hasParams tells whether
\* the body holds the parameters object (params on "rpc", the body itself on
\* "rest"); a field the request does not carry is Null.
NoTaskId == <<0, "">>

Request(surface, jsonrpc, method, id, hasParams, skillId, input, sessionId, taskId, agentId) ==
  [surface |-> surface, jsonrpc |-> jsonrpc, method |-> method, id |-> id,
   hasParams |-> hasParams, skillId |-> skillId, input |-> input,
   sessionId |-> sessionId, taskId |-> taskId, agentId |-> agentId]

NoRequest == Request("none", Null, Null, Null, FALSE, Null, Null, Null, NoTaskId, Null)

\* A2AMessage.createResponse / createError: code 0 stands for a body without
\* an error member, an empty result for a body without a result member.
createResponse(id, result) == [id |-> id, code |-> 0, message |-> Null, result |-> <<result>>]
createError(id, code, message) == [id |-> id, code |-> code, message |-> message, result |-> << >>]

\* What a route does with a request: it replies at once (HTTP status, body),
\* or it calls a2aProtocol.sendTask(args) and replies when that returns.
Reply(status, body) == [kind |-> "reply", status |-> status, body |-> body, args |-> << >>]
Call(skillId, input, sessionId) ==
  [kind |-> "sendTask", status |-> 0, body |-> createError(Null, 0, Null),
   args |-> <<skillId, input, sessionId>>]
Pending == [kind |-> "pending", status |-> 0, body |-> createError(Null, 0, Null), args |-> << >>]

\* Agent and skill ids registerAgent is called with. A Map entry or an object
\* property that is missing is << >>, one that is present is <<value>>.
AgentIds == {"spotify", "speech"}
SkillIds == {"play_music", "pause"}
NoDispatch == [skillId |-> Null, handler |-> << >>, registered |-> 0]

NoSkillCall == [pc |-> "none", skillId |-> Null, sessionId |-> Null]

\* ================================================================= initial
Init ==
  /\ now = 1
  /\ pendingResponses = [s \in Sessions |-> FALSE]
  /\ lastResponseTime = [s \in Sessions |-> Absent]
  /\ handlers = [h \in Handlers |-> InitHandler]
  /\ tasks = << >>
  /\ taskObjs = << >>
  /\ audioBuffers = [s \in Sessions |-> << >>]
  /\ isSpeaking = [s \in Sessions |-> FALSE]
  /\ isProcessing = [s \in Sessions |-> FALSE]
  /\ silenceTimers = [s \in Sessions |-> FALSE]
  /\ noAudioTimers = [s \in Sessions |-> [has |-> FALSE, pending |-> FALSE]]
  /\ transcribing = [s \in Sessions |-> << >>]
  /\ flushes = [s \in Sessions |-> << >>]
  /\ segment = [s \in Sessions |-> << >>]
  /\ fed = [s \in Sessions |-> [n |-> 0, levels |-> {}]]
  /\ accepted = [s \in Sessions |-> {}]
  /\ stops = [s \in Sessions |-> FALSE]
  /\ nframes = 0
  /\ sessions = [s \in Sessions |-> "none"]
  /\ subscribers = [e \in ClientEvents |-> << >>]
  /\ published = NoPublish
  /\ invoked = << >>
  /\ served = [req |-> NoRequest, task |-> 0, plan |-> Pending]
  /\ readyState = [s \in Sessions |-> "NONE"]
  /\ wire = << >>
  /\ agentCards = [a \in AgentIds |-> << >>]
  /\ skillHandlers = [k \in SkillIds |-> << >>]
  /\ registrations = << >>
  /\ dispatched = NoDispatch
  /\ skillCall = NoSkillCall
  /\ ttsSpeaking = [s \in Sessions |-> FALSE]
  /\ speech = << >>
  /\ echo = [s \in Sessions |-> << >>]

BusSpec == Init /\ [][BusNext]_vars

\* ---------------------------------------------- Response Gate specification
GateNext == SpeechTranscribed \/ IntentReturns \/ SpotifyReturns \/ ChatReturns \/ GateTick

GateSpec == Init /\ [][GateNext]_vars

\* Every awaited external call returns or throws.
GateFairSpec ==
  /\ GateSpec
  /\ \A h \in Handlers :
       /\ WF_vars(\E o \in IntentOutcomes : handleTranscriptIntent(h, o) /\ UNCHANGED <<now, taskVars, segVars, busVars, apiVars, wsVars, regVars, skillVars, ttsVars>>)
       /\ WF_vars(\E o \in CallOutcomes : handleCommand(h, o) /\ UNCHANGED <<now, taskVars, segVars, busVars, apiVars, wsVars, regVars, skillVars, ttsVars>>)
       /\ WF_vars(\E o \in CallOutcomes : handleTranscriptChat(h, o) /\ UNCHANGED <<now, taskVars, segVars, busVars, apiVars, wsVars, regVars, skillVars, ttsVars>>)

\* ------------------------------------------------- Response Gate properties
\* h is between responseManager.lock and the matching responseManager.unlock.
InFlight(h) == handlers[h].pc \in {"intent", "spotify", "chat"}

UnitsInFlight(s) == Cardinality({h \in Handlers : InFlight(h) /\ handlers[h].session = s})

LocksIssued(s) == Cardinality({h \in Handlers : handlers[h].session = s /\ handlers[h].locks > 0})

UnlocksIssued(s) == Cardinality({h \in Handlers : handlers[h].session = s /\ handlers[h].unlocks > 0})

\* C1: for every session at most one response-composition unit of work
\* (lock .. unlock span of handleTranscript) is in flight at a time.
C1_OneUnitPerSession == \A s \in Sessions : UnitsInFlight(s) <= 1

\* C2: canRespond(s) is false if and only if some prior lock(s) has no
\* matching unlock(s) yet.
C2_CanRespondIffUnmatchedLock ==
  \A s \in Sessions : (~canRespond(s)) <=> (LocksIssued(s) > UnlocksIssued(s))

\* C3: every lock taken while handling a transcript is eventually followed by
\* an unlock issued on that handler's exit path, whichever path it takes.
C3_LockLeadsToUnlock ==
  \A h \in Handlers : (handlers[h].locks > 0) ~> (handlers[h].unlocks > 0)

\* Two handlers of one session have both locked and both unlocked, one of
\* them through the catch block (its intent detection failed).
C3_Witness ==
  \E h, g \in Handlers :
    /\ h # g /\ handlers[h].session = handlers[g].session
    /\ handlers[h].pc = "done" /\ handlers[h].locks = 1 /\ handlers[h].unlocks = 1
    /\ handlers[g].pc = "done" /\ handlers[g].locks = 1 /\ handlers[g].unlocks = 1

\* Gaps shouldDebounce is asked about: the 1500 of handleTranscript, the
\* default 2000, and a shorter one.
Gaps == {500, DEBOUNCE_GAP, 2000}

\* The handlers that called unlock(s), and the time of the latest such call.
Unlockers(s) == {h \in Handlers : handlers[h].session = s /\ handlers[h].unlocks > 0}
LastUnlock(s) ==
  CHOOSE t \in {handlers[h].unlockedAt : h \in Unlockers(s)} :
    \A h \in Unlockers(s) : handlers[h].unlockedAt <= t

\* C21: shouldDebounce(s, g) is true exactly when an unlock(s) has been
\* recorded and now - (time of the latest unlock(s)) < g: false without any
\* unlock(s), false at a gap of exactly g, whatever other sessions did.
C21_ShouldDebounceIffRecentUnlock ==
  \A s \in Sessions, g \in Gaps :
    shouldDebounce(s, g) <=> (Unlockers(s) # {} /\ now - LastUnlock(s) < g)

\* s1 was unlocked exactly DEBOUNCE_GAP ago and is not debounced, while s2,
\* unlocked since, is.
C21_Witness ==
  /\ Unlockers("s1") # {} /\ Unlockers("s2") # {}
  /\ now - LastUnlock("s1") = DEBOUNCE_GAP
  /\ ~shouldDebounce("s1", DEBOUNCE_GAP)
  /\ shouldDebounce("s2", DEBOUNCE_GAP)

\* ============================================================ A2A PROTOCOL

\* TaskState
SUBMITTED == "submitted"
WORKING == "working"
INPUT_REQUIRED == "input-required"
COMPLETED == "completed"
FAILED == "failed"
CANCELED == "canceled"

\* generateTaskId: `task_${Date.now()}_${4 random bytes}`.
RandomSuffixes == {"a1", "b2"}
generateTaskId(rand) == <<now, rand>>

\* Skill ids with a handler in agentHandlers after the agents registered
\* (a sample of them), and the skill ids callers ask for: 'coordinate_agents'
\* is declared on the orchestrator's card without a handler.
agentHandlers == {"play_by_mood", "manage_sessions", "get_current_track"}
RequestedSkills == {"play_by_mood", "coordinate_agents"}

\* What an awaited handler does: it returns a result (possibly null, as
\* getSessionInfo does), throws a value whose .message can be read (an Error
\* with its message, or an object or string whose message is undefined), or
\* throws null or undefined (a Promise rejected without a reason), of which
\* the catch block cannot read .message.
HandlerOutcomes ==
  [kind : {"return"}, value : {"result", Null}] \cup
  [kind : {"throw"}, value : {"Spotify API error", Null}] \cup
  [kind : {"throwNullish"}, value : {Null}]

\* Inputs passed to sendTask.
TaskInputs == {"mood:happy"}

\* Session ids passed to sendTask ('api' is the REST default).
TaskSessions == {"s1"}

\* Payloads of 'a2a:task:complete' and 'a2a:task:fail'.
EventOutputs == {"event output", Null}
EventErrors == {"event error"}

\* new A2ATask(skillId, input, sessionId). Two fields are not the object's:
\* pc is the position of the sendTask call that made the task, and call holds
\* the arguments its handler was invoked with (empty: not invoked).
A2ATask(id, skillId, input, sessionId) ==
  [id |-> id, sessionId |-> sessionId, skillId |-> skillId, input |-> input,
   state |-> SUBMITTED, output |-> Null, error |-> Null, createdAt |-> now,
   updatedAt |-> now, history |-> << >>, pc |-> "created", call |-> << >>]

\* An updateState that overwrites the history with the new entry.
updateStateRewrites(t, newState, message) ==
  [t EXCEPT !.state = newState,
            !.updatedAt = now,
            !.history = <<[state |-> newState, timestamp |-> now, message |-> message]>>]

updateState(t, newState, message) ==
  [t EXCEPT !.state = newState,
            !.updatedAt = now,
            !.history = Append(@, [state |-> newState, timestamp |-> now, message |-> message])]

\* A complete that records the transition and drops the output.
completeDropsOutput(t, output) == updateState(t, COMPLETED, Null)

complete(t, output) == updateState([t EXCEPT !.output = output], COMPLETED, Null)

fail(t, error) == updateState([t EXCEPT !.error = error], FAILED, error)

\* A sendTask that marks the task Working before it looks for the handler.
sendTaskWorkingFirst(skillId, input, sessionId, rand) ==
  LET id == generateTaskId(rand)
      task == updateState(A2ATask(id, skillId, input, sessionId), WORKING, Null)
      i == Len(taskObjs) + 1
  IN /\ Len(taskObjs) < MaxTasks
     /\ tasks' = (id :> i) @@ tasks
     /\ taskObjs' = Append(taskObjs,
          IF skillId \notin agentHandlers
            THEN [fail(task, "No handler for skill: " \o skillId) EXCEPT !.pc = "returned"]
            ELSE [task EXCEPT !.pc = "await", !.call = <<input, sessionId, id>>])

\* sendTask up to the await of the handler (or to its return when the skill
\* has no handler).
sendTask(skillId, input, sessionId, rand) ==
  LET id == generateTaskId(rand)
      task == A2ATask(id, skillId, input, sessionId)
      i == Len(taskObjs) + 1
  IN /\ Len(taskObjs) < MaxTasks
     /\ tasks' = (id :> i) @@ tasks
     /\ taskObjs' = Append(taskObjs,
          IF skillId \notin agentHandlers
            THEN [fail(task, "No handler for skill: " \o skillId) EXCEPT !.pc = "returned"]
            ELSE [updateState(task, WORKING, Null)
                    EXCEPT !.pc = "await", !.call = <<input, sessionId, id>>])

\* A sendTask that returns its task once the handler settled without
\* recording the outcome.
sendTaskResumeKeepsState(i, outcome) ==
  /\ i \in DOMAIN taskObjs
  /\ taskObjs[i].pc = "await"
  /\ taskObjs' = [taskObjs EXCEPT ![i].pc = "returned"]
  /\ UNCHANGED tasks

\* sendTask after the awaited handler settled: task.complete(result) in the
\* try block, task.fail(error.message) in the catch block. Reading .message of
\* a thrown null or undefined throws a TypeError out of the catch block, and
\* the promise of sendTask rejects with the task untouched.
sendTaskResume(i, outcome) ==
  /\ i \in DOMAIN taskObjs
  /\ taskObjs[i].pc = "await"
  /\ taskObjs' = [taskObjs EXCEPT ![i] =
       CASE outcome.kind = "return" -> [complete(@, outcome.value) EXCEPT !.pc = "returned"]
         [] outcome.kind = "throw" -> [fail(@, outcome.value) EXCEPT !.pc = "returned"]
         [] outcome.kind = "throwNullish" -> [@ EXCEPT !.pc = "rejected"]]
  /\ UNCHANGED tasks

handleTaskComplete(taskId, output) ==
  IF taskId \in DOMAIN tasks
    THEN /\ taskObjs' = [taskObjs EXCEPT ![tasks[taskId]] = complete(@, output)]
         /\ UNCHANGED tasks
    ELSE UNCHANGED <<tasks, taskObjs>>

handleTaskFail(taskId, error) ==
  IF taskId \in DOMAIN tasks
    THEN /\ taskObjs' = [taskObjs EXCEPT ![tasks[taskId]] = fail(@, error)]
         /\ UNCHANGED tasks
    ELSE UNCHANGED <<tasks, taskObjs>>

\* getTask(taskId): the task the store holds under taskId.
getTask(taskId) == IF taskId \in DOMAIN tasks THEN taskObjs[tasks[taskId]] ELSE Null

\* Task ids an event may name: those of the store and one that is unknown.
EventTaskIds == DOMAIN tasks \cup {<<0, "a1">>}

HistoryRoom(taskId) ==
  taskId \in DOMAIN tasks => Len(taskObjs[tasks[taskId]].history) < MaxHistory

SendTask ==
  /\ \E k \in RequestedSkills, inp \in TaskInputs, s \in TaskSessions, r \in RandomSuffixes :
       sendTask(k, inp, s, r)
  /\ UNCHANGED <<now, gateVars, segVars, busVars, apiVars, wsVars, regVars, skillVars, ttsVars>>

HandlerSettles ==
  /\ \E i \in 1..MaxTasks, o \in HandlerOutcomes : sendTaskResume(i, o)
  /\ UNCHANGED <<now, gateVars, segVars, busVars, apiVars, wsVars, regVars, skillVars, ttsVars>>

TaskCompleteEvent ==
  /\ \E id \in EventTaskIds, o \in EventOutputs : HistoryRoom(id) /\ handleTaskComplete(id, o)
  /\ UNCHANGED <<now, gateVars, segVars, busVars, apiVars, wsVars, regVars, skillVars, ttsVars>>

TaskFailEvent ==
  /\ \E id \in EventTaskIds, e \in EventErrors : HistoryRoom(id) /\ handleTaskFail(id, e)
  /\ UNCHANGED <<now, gateVars, segVars, busVars, apiVars, wsVars, regVars, skillVars, ttsVars>>

TaskTick == Tick(MaxTaskTicks)

TaskNext == SendTask \/ HandlerSettles \/ TaskCompleteEvent \/ TaskFailEvent \/ TaskTick

TaskSpec == Init /\ [][TaskNext]_vars

\* An awaited handler settles: its promise resolves or rejects.
TaskFairSpec == TaskSpec /\ WF_vars(HandlerSettles)

\* ========================================================== A2A API ROUTES
\* a2aProtocol.agents once the five agents registered, and the agent ids
\* requests ask for.
agents == {"spotify", "conversation", "sentiment", "speech", "orchestrator"}
RequestedAgents == {"spotify", "jukebox"}

\* getAgentCard(agentId): the card's JSON, or nothing (undefined).
getAgentCard(agentId) == IF agentId \in agents THEN <<[name |-> agentId]>> ELSE << >>

listAgents == agents

\* A2ATask.toJSON()
toJSON(t) ==
  [id |-> t.id, sessionId |-> t.sessionId, skillId |-> t.skillId, state |-> t.state,
   input |-> t.input, output |-> t.output, error |-> t.error, history |-> t.history]

\* GET /api/a2a/agents
restAgentsList(req) ==
  Reply(200, createResponse(Null, listAgents))

\* GET /api/a2a/agents/:agentId
restAgentsGet(req) ==
  IF getAgentCard(req.agentId) = << >>
    THEN Reply(404, createError(Null, -32001, "Agent not found"))
    ELSE Reply(200, createResponse(Null, Head(getAgentCard(req.agentId))))

\* GET /api/a2a/tasks/:taskId
restTasksGet(req) ==
  IF req.taskId \notin DOMAIN tasks
    THEN Reply(404, createError(Null, -32001, "Task not found"))
    ELSE Reply(200, createResponse(Null, toJSON(getTask(req.taskId))))

\* POST /api/a2a/tasks/send, up to its await of sendTask
restTasksSend(req) ==
  IF req.skillId = Null
    THEN Reply(400, createError(req.id, -32602, "Missing skillId"))
    ELSE Call(req.skillId,
              IF req.input = Null THEN "{}" ELSE req.input,
              IF req.sessionId = Null THEN "api" ELSE req.sessionId)

\* The catch block of POST /api/a2a/rpc.
rpcCatch(req, message) == Reply(500, createError(req.id, -32603, message))

\* POST /api/a2a/rpc, up to its await of sendTask. Reading a member of a
\* missing params object throws a TypeError inside the try block.
rpc(req) ==
  IF req.jsonrpc # "2.0"
    THEN Reply(400, createError(req.id, -32600, "Invalid JSON-RPC version"))
    ELSE CASE req.method = "tasks/send" ->
                IF ~req.hasParams THEN rpcCatch(req, "TypeError")
                ELSE Call(req.skillId, req.input, req.sessionId)
           [] req.method = "tasks/get" ->
                IF ~req.hasParams THEN rpcCatch(req, "TypeError")
                ELSE IF req.taskId \notin DOMAIN tasks THEN rpcCatch(req, "Task not found")
                ELSE Reply(200, createResponse(req.id, toJSON(getTask(req.taskId))))
           [] req.method = "agents/list" ->
                Reply(200, createResponse(req.id, listAgents))
           [] req.method = "agents/get" ->
                IF ~req.hasParams THEN rpcCatch(req, "TypeError")
                ELSE IF getAgentCard(req.agentId) = << >> THEN rpcCatch(req, "Agent not found")
                ELSE Reply(200, createResponse(req.id, Head(getAgentCard(req.agentId))))
           [] OTHER ->
                Reply(400, createError(req.id, -32601, "Method not found"))

route(req) ==
  IF req.surface = "rpc" THEN rpc(req)
  ELSE CASE req.method = "tasks/send" -> restTasksSend(req)
         [] req.method = "tasks/get" -> restTasksGet(req)
         [] req.method = "agents/list" -> restAgentsList(req)
         [] req.method = "agents/get" -> restAgentsGet(req)

\* The reply of a tasks/send route once sendTask settled: the task's JSON as
\* result, or error -32603 from the catch block when sendTask rejected.
tasksSendReply(req, t) ==
  CASE t.pc = "returned" -> Reply(200, createResponse(req.id, toJSON(t)))
    [] t.pc = "rejected" -> Reply(500, createError(req.id, -32603, "TypeError"))
    [] OTHER -> Pending

\* Requests that both surfaces can express, as [method, skillId, input,
\* sessionId, taskId, agentId], and their REST and JSON-RPC forms.
Calls ==
  {<<"tasks/send", "play_by_mood", "mood:happy", "s1", NoTaskId, Null>>,
   <<"tasks/send", "coordinate_agents", "mood:happy", "s1", NoTaskId, Null>>,
   <<"tasks/send", "play_by_mood", Null, Null, NoTaskId, Null>>,
   <<"tasks/send", Null, "mood:happy", "s1", NoTaskId, Null>>,
   <<"agents/list", Null, Null, Null, NoTaskId, Null>>}
  \cup {<<"tasks/get", Null, Null, Null, id, Null>> : id \in EventTaskIds}
  \cup {<<"agents/get", Null, Null, Null, NoTaskId, a>> : a \in RequestedAgents}

AsRest(c) ==
  Request("rest", Null, c[1], IF c[1] = "tasks/send" THEN "req-1" ELSE Null, TRUE,
          c[2], c[3], c[4], c[5], c[6])
AsRpc(c) == Request("rpc", "2.0", c[1], "req-1", TRUE, c[2], c[3], c[4], c[5], c[6])

\* JSON-RPC bodies without counterpart: no params object, another protocol
\* version, an unknown method.
RpcOnly ==
  {Request("rpc", "2.0", m, "req-1", FALSE, Null, Null, Null, NoTaskId, Null) :
     m \in {"tasks/send", "tasks/get", "agents/get"}}
  \cup {Request("rpc", "1.0", "agents/list", "req-1", TRUE, Null, Null, Null, NoTaskId, Null),
        Request("rpc", "2.0", "tasks/cancel", "req-1", TRUE, Null, Null, Null, NoTaskId, Null)}

Requests == {AsRest(c) : c \in Calls} \cup {AsRpc(c) : c \in Calls} \cup RpcOnly

\* A route serves a request.
serve(req) ==
  LET plan == route(req)
  IN IF plan.kind = "reply"
       THEN /\ served' = [req |-> req, task |-> 0, plan |-> plan]
            /\ UNCHANGED <<tasks, taskObjs>>
       ELSE /\ \E r \in RandomSuffixes : sendTask(plan.args[1], plan.args[2], plan.args[3], r)
            /\ served' = [req |-> req, task |-> Len(taskObjs) + 1, plan |-> plan]

\* The reply to the request served last, Pending while its sendTask runs.
Response ==
  IF served.plan.kind = "sendTask"
    THEN tasksSendReply(served.req, taskObjs[served.task])
    ELSE served.plan

Serve ==
  /\ \E req \in Requests : serve(req)
  /\ UNCHANGED <<now, gateVars, segVars, busVars, wsVars, regVars, skillVars, ttsVars>>

ApiNext == Serve \/ HandlerSettles

ApiSpec == Init /\ [][ApiNext]_vars

\* ------------------------------------------------- task lifecycle properties
Terminal == {COMPLETED, FAILED, CANCELED}

\* The legal transitions: Submitted -> Working -> {Completed, Failed}, the
\* direct Submitted -> Failed of a dispatch without handler, and -> Canceled
\* from any non-terminal state.
LegalTransition(from, to) ==
  \/ from = SUBMITTED /\ to \in {WORKING, FAILED}
  \/ from = WORKING /\ to \in {COMPLETED, FAILED}
  \/ from \notin Terminal /\ to = CANCELED

\* The states a task went through: Submitted, then its history entries.
Walk(t) == <<SUBMITTED>> \o [n \in 1..Len(t.history) |-> t.history[n].state]

ValidWalk(t) ==
  /\ \A n \in 1..Len(t.history) : LegalTransition(Walk(t)[n], Walk(t)[n + 1])
  /\ Cardinality({n \in 1..Len(t.history) : t.history[n].state \in Terminal}) <= 1

\* C4: every task's recorded history is a valid walk of the transition graph
\* and contains no two terminal states.
C4_HistoryIsValidWalk == \A i \in DOMAIN taskObjs : ValidWalk(taskObjs[i])

\* C5: a task's output is present only if its state is Completed, and its
\* error is present only if its state is Failed.
C5_OutputOnlyCompletedErrorOnlyFailed ==
  \A i \in DOMAIN taskObjs :
    /\ taskObjs[i].output # Null => taskObjs[i].state = COMPLETED
    /\ taskObjs[i].error # Null => taskObjs[i].state = FAILED

\* Tasks dispatched for a skill id that has no registered handler.
NoHandlerTasks == {i \in DOMAIN taskObjs : taskObjs[i].skillId \notin agentHandlers}

\* C11 (as stated): a task dispatched for a skill without handler goes directly
\* to Failed with the message "no handler for skill: <id>", and Working never
\* appears in its history.
C11_NoHandlerFailsWithStatedMessage ==
  \A i \in NoHandlerTasks :
    LET h == taskObjs[i].history
    IN /\ Len(h) >= 1
       /\ h[1].state = FAILED
       /\ h[1].message = "no handler for skill: " \o taskObjs[i].skillId
       /\ \A n \in DOMAIN h : h[n].state # WORKING

\* C11 (amended): a task dispatched for a skill without handler goes directly
\* to Failed with the message "No handler for skill: <id>" as the code writes
\* it, stored as task.error, and Working never appears in its history.
C11_NoHandlerFailsDirectly ==
  \A i \in NoHandlerTasks :
    LET h == taskObjs[i].history
    IN /\ Len(h) >= 1
       /\ h[1].state = FAILED
       /\ h[1].message = "No handler for skill: " \o taskObjs[i].skillId
       /\ Len(h) = 1 => /\ taskObjs[i].state = FAILED
                        /\ taskObjs[i].error = h[1].message
       /\ \A n \in DOMAIN h : h[n].state # WORKING
       /\ taskObjs[i].pc = "returned"

\* sendTask('coordinate_agents', ...) has returned its task.
C11_Witness ==
  \E i \in NoHandlerTasks :
    /\ taskObjs[i].skillId = "coordinate_agents"
    /\ Len(taskObjs[i].history) = 1
    /\ taskObjs[i].state = FAILED

\* C12: dispatching a task whose skill has a handler moves it to Working and
\* invokes the handler with (input, sessionId, task); when the handler returns,
\* the task moves to Completed with the handler's result as output; no other
\* task changes.
C12_HandlerResultCompletesTask ==
  [][/\ \A k \in agentHandlers, inp \in TaskInputs, s \in TaskSessions, r \in RandomSuffixes :
          sendTask(k, inp, s, r) =>
            LET t == taskObjs'[Len(taskObjs')]
            IN /\ t.state = WORKING
               /\ t.pc = "await"
               /\ t.call = <<inp, s, t.id>>
               /\ \A j \in DOMAIN taskObjs : taskObjs'[j] = taskObjs[j]
     /\ \A i \in DOMAIN taskObjs, o \in HandlerOutcomes :
          (sendTaskResume(i, o) /\ o.kind = "return") =>
            /\ taskObjs'[i].state = COMPLETED
            /\ taskObjs'[i].output = o.value
            /\ taskObjs'[i].pc = "returned"
            /\ \A j \in DOMAIN taskObjs \ {i} : taskObjs'[j] = taskObjs[j]]_vars

\* One task went Working -> Completed with its handler's result while the
\* handler of another task is still running.
C12_Witness ==
  \E i, j \in DOMAIN taskObjs :
    /\ taskObjs[i].pc = "returned"
    /\ taskObjs[i].call = <<"mood:happy", "s1", taskObjs[i].id>>
    /\ [n \in 1..Len(taskObjs[i].history) |-> taskObjs[i].history[n].state]
         = <<WORKING, COMPLETED>>
    /\ taskObjs[i].output = "result"
    /\ taskObjs[j].pc = "await"
    /\ taskObjs[j].state = WORKING

\* C13: whenever a handler terminates by throwing or rejecting, with any thrown
\* value, sendTask returns the task in state Failed with the error's message
\* as task.error; the task is not left in Working.
C13_ThrowingHandlerFailsTask ==
  [][\A i \in DOMAIN taskObjs, o \in HandlerOutcomes :
       (sendTaskResume(i, o) /\ o.kind # "return") =>
         /\ taskObjs'[i].pc = "returned"
         /\ taskObjs'[i].state = FAILED
         /\ taskObjs'[i].error = o.value]_vars

\* C14: every task sendTask has returned (to tasks/send, to handleTaskSend's
\* result event) is in state Completed or Failed; a Submitted or Working task
\* is never returned.
C14_ReturnedTaskIsResolved ==
  \A i \in DOMAIN taskObjs :
    taskObjs[i].pc = "returned" => taskObjs[i].state \in {COMPLETED, FAILED}

\* sendTask has returned one task Completed and another Failed by its handler.
C14_Witness ==
  \E i, j \in DOMAIN taskObjs :
    /\ taskObjs[i].pc = "returned" /\ taskObjs[i].state = COMPLETED
    /\ taskObjs[j].pc = "returned" /\ taskObjs[j].state = FAILED
    /\ taskObjs[j].error = "Spotify API error"

\* C15: a task's history is seeded at creation with one entry for Submitted,
\* so the first history entry of every task is Submitted.
C15_HistoryStartsWithSubmitted ==
  \A i \in DOMAIN taskObjs :
    /\ Len(taskObjs[i].history) >= 1
    /\ taskObjs[i].history[1].state = SUBMITTED

IsPrefix(a, b) == Len(a) <= Len(b) /\ \A n \in DOMAIN a : b[n] = a[n]

\* C16: every state transition appends exactly one (state, timestamp, message)
\* entry to the history and sets updatedAt to its timestamp; entries are never
\* modified or removed; timestamps are non-decreasing along the history; once
\* the history is non-empty, task.state is the state of its last entry.
C16_HistoryIsAppendOnlyLog ==
  /\ [](\A i \in DOMAIN taskObjs :
          LET h == taskObjs[i].history
          IN /\ \A n \in 1..(Len(h) - 1) : h[n].timestamp <= h[n + 1].timestamp
             /\ Len(h) > 0 => /\ taskObjs[i].state = h[Len(h)].state
                              /\ taskObjs[i].updatedAt = h[Len(h)].timestamp)
  /\ [][\A i \in DOMAIN taskObjs :
          LET h == taskObjs[i].history
              g == taskObjs'[i].history
          IN /\ IsPrefix(h, g)
             /\ Len(g) <= Len(h) + 1
             /\ Len(g) = Len(h) => /\ taskObjs'[i].state = taskObjs[i].state
                                   /\ taskObjs'[i].updatedAt = taskObjs[i].updatedAt
             /\ Len(g) = Len(h) + 1 => /\ g[Len(g)].timestamp = now
                                       /\ taskObjs'[i].updatedAt = now]_vars

\* A task whose two transitions happened at different times.
C16_Witness ==
  \E i \in DOMAIN taskObjs :
    LET h == taskObjs[i].history
    IN /\ Len(h) = 2
       /\ h[1].timestamp < h[2].timestamp
       /\ h[1].state = WORKING
       /\ taskObjs[i].state = h[2].state

\* C17: no two tasks created by sendTask share an identifier, so storing a new
\* task never overwrites an entry of the task map and getTask(id) returns the
\* task that was created with that id.
C17_TaskIdsUnique ==
  /\ \A i, j \in DOMAIN taskObjs : i # j => taskObjs[i].id # taskObjs[j].id
  /\ \A i \in DOMAIN taskObjs : getTask(taskObjs[i].id) = taskObjs[i]

\* A task that sendTask stored is no longer held by the task map.
Evicted == \E i \in DOMAIN taskObjs : taskObjs[i].id \notin DOMAIN tasks

\* C18: the task store is bounded by an eviction or TTL policy: once tasks are
\* stored, some previously stored task is eventually removed.
C18_StoredTaskEventuallyEvicted == (taskObjs # << >>) ~> Evicted

\* ================================================== message bus properties
\* The callbacks the last publish call invoked.
InvokedCallbacks == {invoked[n].callback : n \in DOMAIN invoked}

\* C19: when a callback subscribed to an event throws synchronously during
\* publish, every other callback subscribed to that event is still invoked
\* for that call, and the exception does not reach the publisher.
C19_ThrowingHandlerIsIsolated ==
  /\ ~published.threw
  /\ \A n \in DOMAIN published.handlers : published.handlers[n].id \in InvokedCallbacks

\* C20: publish(event, data) invokes each callback subscribed to the event
\* exactly once, in subscription order, with the published data, and no
\* callback subscribed to another event.
C20_PublishInvokesSubscribersInOrder ==
  invoked = [n \in DOMAIN published.handlers |->
               [callback |-> published.handlers[n].id, data |-> published.data]]

\* ============================================================ SPEECH AGENT
\* A frame is [id, level, bytes]: level is calculateAudioLevel(buffer) in
\* hundredths (0.02: at the threshold, 0.03: above it), bytes is buffer.length.
FrameLevels == {2, 3}
FrameBytes == {1600, 3200}

RECURSIVE ByteLength(_)
\* Buffer.concat(chunks).length
ByteLength(chunks) ==
  IF chunks = << >> THEN 0 ELSE Head(chunks).bytes + ByteLength(Tail(chunks))

\* audioLevel >= SPEECH_THRESHOLD instead of audioLevel > SPEECH_THRESHOLD.
IsSpeechAtThreshold(level) == level >= SPEECH_THRESHOLD

\* handleAudio: audioLevel > SPEECH_THRESHOLD
IsSpeech(level) == level > SPEECH_THRESHOLD

\* A flush that hands the buffer on without clearing it.
processAudioKeepsBuffer(s) ==
  IF isProcessing[s] \/ Len(audioBuffers[s]) = 0
    THEN UNCHANGED <<isProcessing, audioBuffers, transcribing, flushes>>
    ELSE /\ UNCHANGED audioBuffers
         /\ IF ByteLength(audioBuffers[s]) < MIN_AUDIO_BYTES
              THEN /\ flushes' = [flushes EXCEPT ![s] =
                                    Append(@, [frames |-> audioBuffers[s], kind |-> "discard"])]
                   /\ UNCHANGED <<isProcessing, transcribing>>
              ELSE /\ isProcessing' = [isProcessing EXCEPT ![s] = TRUE]
                   /\ transcribing' = [transcribing EXCEPT ![s] = Append(@, audioBuffers[s])]
                   /\ flushes' = [flushes EXCEPT ![s] =
                                    Append(@, [frames |-> audioBuffers[s], kind |-> "utterance"])]

\* A flush that also drops a buffer of exactly the minimum length.
processAudioDropsAtFloor(s) ==
  IF isProcessing[s] \/ Len(audioBuffers[s]) = 0
    THEN UNCHANGED <<isProcessing, audioBuffers, transcribing, flushes>>
    ELSE /\ audioBuffers' = [audioBuffers EXCEPT ![s] = << >>]
         /\ IF ByteLength(audioBuffers[s]) <= MIN_AUDIO_BYTES
              THEN /\ flushes' = [flushes EXCEPT ![s] =
                                    Append(@, [frames |-> audioBuffers[s], kind |-> "discard"])]
                   /\ UNCHANGED <<isProcessing, transcribing>>
              ELSE /\ isProcessing' = [isProcessing EXCEPT ![s] = TRUE]
                   /\ transcribing' = [transcribing EXCEPT ![s] = Append(@, audioBuffers[s])]
                   /\ flushes' = [flushes EXCEPT ![s] =
                                    Append(@, [frames |-> audioBuffers[s], kind |-> "utterance"])]

\* A flush that does not test the isProcessing flag.
processAudioNoFlagCheck(s) ==
  IF Len(audioBuffers[s]) = 0
    THEN UNCHANGED <<isProcessing, audioBuffers, transcribing, flushes>>
    ELSE /\ audioBuffers' = [audioBuffers EXCEPT ![s] = << >>]
         /\ IF ByteLength(audioBuffers[s]) < MIN_AUDIO_BYTES
              THEN /\ flushes' = [flushes EXCEPT ![s] =
                                    Append(@, [frames |-> audioBuffers[s], kind |-> "discard"])]
                   /\ UNCHANGED <<isProcessing, transcribing>>
              ELSE /\ isProcessing' = [isProcessing EXCEPT ![s] = TRUE]
                   /\ transcribing' = [transcribing EXCEPT ![s] = Append(@, audioBuffers[s])]
                   /\ flushes' = [flushes EXCEPT ![s] =
                                    Append(@, [frames |-> audioBuffers[s], kind |-> "utterance"])]

\* processAudio up to its await of this.transcribe(): return at once when
\* the flag is set; otherwise take the chunks, return when there are none,
\* clear the buffer, drop a buffer shorter than 3200 bytes, else hand the
\* concatenation to the transcription.  The flag is set and reset within the
\* step on the two early returns.
processAudio(s) ==
  IF isProcessing[s] \/ Len(audioBuffers[s]) = 0
    THEN UNCHANGED <<isProcessing, audioBuffers, transcribing, flushes>>
    ELSE /\ audioBuffers' = [audioBuffers EXCEPT ![s] = << >>]
         /\ IF ByteLength(audioBuffers[s]) < MIN_AUDIO_BYTES
              THEN /\ flushes' = [flushes EXCEPT ![s] =
                                    Append(@, [frames |-> audioBuffers[s], kind |-> "discard"])]
                   /\ UNCHANGED <<isProcessing, transcribing>>
              ELSE /\ isProcessing' = [isProcessing EXCEPT ![s] = TRUE]
                   /\ transcribing' = [transcribing EXCEPT ![s] = Append(@, audioBuffers[s])]
                   /\ flushes' = [flushes EXCEPT ![s] =
                                    Append(@, [frames |-> audioBuffers[s], kind |-> "utterance"])]

\* The 'client:listening_state' events handleAudio publishes for a frame: one
\* with state 'listening' when a frame above the threshold finds the session
\* not speaking.
handleAudioPublishes(s, frame) ==
  IF IsSpeech(frame.level) /\ ~isSpeaking[s]
    THEN <<[event |-> "client:listening_state", sessionId |-> s, state |-> "listening"]>>
    ELSE << >>

\* handleAudio(data): the no-audio timer is cleared, and armed again only if
\* the session is already speaking; then the frame is classified.
handleAudio(s, frame) ==
  /\ noAudioTimers' = [noAudioTimers EXCEPT ![s] =
                         IF isSpeaking[s] THEN [has |-> TRUE, pending |-> TRUE]
                                          ELSE [has |-> FALSE, pending |-> FALSE]]
  /\ IF IsSpeech(frame.level)
       THEN /\ isSpeaking' = [isSpeaking EXCEPT ![s] = TRUE]
            /\ audioBuffers' = [audioBuffers EXCEPT ![s] = Append(@, frame)]
            /\ silenceTimers' = [silenceTimers EXCEPT ![s] = FALSE]
            /\ segment' = [segment EXCEPT ![s] = IF isSpeaking[s] THEN Append(@, frame) ELSE <<frame>>]
            /\ accepted' = [accepted EXCEPT ![s] = @ \cup {frame.id}]
       ELSE IF isSpeaking[s]
         THEN /\ audioBuffers' = [audioBuffers EXCEPT ![s] = Append(@, frame)]
              /\ silenceTimers' = [silenceTimers EXCEPT ![s] = TRUE]
              /\ segment' = [segment EXCEPT ![s] = Append(@, frame)]
              /\ accepted' = [accepted EXCEPT ![s] = @ \cup {frame.id}]
              /\ UNCHANGED isSpeaking
         ELSE UNCHANGED <<isSpeaking, audioBuffers, silenceTimers, segment, accepted>>
  /\ fed' = [fed EXCEPT ![s] = [n |-> @.n + 1, levels |-> @.levels \cup {frame.level}]]
  /\ nframes' = nframes + 1
  /\ UNCHANGED <<isProcessing, transcribing, flushes, stops>>

\* The callback of the no-audio timer set in handleAudio.
noAudioTimeout(s) ==
  /\ noAudioTimers[s].pending
  /\ noAudioTimers' = [noAudioTimers EXCEPT ![s].pending = FALSE]
  /\ IF isSpeaking[s] /\ Len(audioBuffers[s]) > 0
       THEN /\ isSpeaking' = [isSpeaking EXCEPT ![s] = FALSE]
            /\ silenceTimers' = [silenceTimers EXCEPT ![s] = FALSE]
            /\ processAudio(s)
            /\ segment' = [segment EXCEPT ![s] = << >>]
       ELSE UNCHANGED <<isSpeaking, silenceTimers, isProcessing, audioBuffers, transcribing,
                        flushes, segment>>
  /\ UNCHANGED <<fed, accepted, stops, nframes>>

\* The callback of the silence timer set in handleAudio.
silenceTimeout(s) ==
  /\ silenceTimers[s]
  /\ isSpeaking' = [isSpeaking EXCEPT ![s] = FALSE]
  /\ silenceTimers' = [silenceTimers EXCEPT ![s] = FALSE]
  /\ processAudio(s)
  /\ segment' = [segment EXCEPT ![s] = << >>]
  /\ UNCHANGED <<noAudioTimers, fed, accepted, stops, nframes>>

\* A processAudioNow that flushes without clearing the silence timer.
processAudioNowKeepsTimer(s) ==
  /\ processAudio(s)
  /\ stops' = [stops EXCEPT ![s] = TRUE]
  /\ segment' = [segment EXCEPT ![s] = << >>]
  /\ UNCHANGED <<silenceTimers, isSpeaking, noAudioTimers, fed, accepted, nframes>>

\* processAudioNow(data), the subscriber of 'audio:process_now'.
processAudioNow(s) ==
  /\ silenceTimers' = [silenceTimers EXCEPT ![s] = FALSE]
  /\ processAudio(s)
  /\ stops' = [stops EXCEPT ![s] = TRUE]
  /\ segment' = [segment EXCEPT ![s] = << >>]
  /\ UNCHANGED <<isSpeaking, noAudioTimers, fed, accepted, nframes>>

\* What this.transcribe() does: a text, an empty text, or an error.
TranscribeOutcomes == {"text", "empty", "throw"}

\* A processAudio that leaves the flag set when the transcription throws.
processAudioResumeThrowKeepsFlag(s, n, outcome) ==
  /\ n \in DOMAIN transcribing[s]
  /\ transcribing' = [transcribing EXCEPT ![s] =
                        SubSeq(@, 1, n - 1) \o SubSeq(@, n + 1, Len(@))]
  /\ isProcessing' = [isProcessing EXCEPT ![s] = IF outcome = "throw" THEN @ ELSE FALSE]
  /\ UNCHANGED <<audioBuffers, isSpeaking, silenceTimers, noAudioTimers, flushes,
                 segment, fed, accepted, stops, nframes>>

\* processAudio after its await: whatever the outcome, the flag is reset.
\* (The subscriber of 'speech:transcribed' is handleTranscriptStart; it
\* touches no state of the speech agent.)
processAudioResume(s, n, outcome) ==
  /\ n \in DOMAIN transcribing[s]
  /\ transcribing' = [transcribing EXCEPT ![s] =
                        SubSeq(@, 1, n - 1) \o SubSeq(@, n + 1, Len(@))]
  /\ isProcessing' = [isProcessing EXCEPT ![s] = FALSE]
  /\ UNCHANGED <<audioBuffers, isSpeaking, silenceTimers, noAudioTimers, flushes,
                 segment, fed, accepted, stops, nframes>>

\* wss.on('connection'): orchestrator.registerSession(sessionId, ws). Session
\* ids are fresh, so a session connects once; s2 names the later connection.
registerSession(s) ==
  /\ sessions[s] = "none"
  /\ s = "s1" \/ sessions["s1"] # "none"
  /\ sessions' = [sessions EXCEPT ![s] = "open"]

\* ws.on('close'): orchestrator.removeSession(sessionId), and nothing else.
removeSession(s) ==
  /\ sessions[s] = "open"
  /\ sessions' = [sessions EXCEPT ![s] = "closed"]

Connect ==
  /\ \E s \in Sessions : registerSession(s)
  /\ UNCHANGED <<now, gateVars, taskVars, busVars, apiVars, speechVars, wsVars, regVars, skillVars, ttsVars>>

Disconnect ==
  /\ \E s \in Sessions : removeSession(s)
  /\ UNCHANGED <<now, gateVars, taskVars, busVars, apiVars, speechVars, wsVars, regVars, skillVars, ttsVars>>

\* ws.on('message') with a binary frame: 'audio:received'.
AudioReceived ==
  /\ nframes < MaxFrames
  /\ \E s \in Sessions, l \in FrameLevels, b \in FrameBytes :
       /\ sessions[s] = "open"
       /\ handleAudio(s, [id |-> nframes + 1, level |-> l, bytes |-> b])
  /\ UNCHANGED <<now, gateVars, taskVars, busVars, apiVars, sessions, wsVars, regVars, skillVars, ttsVars>>

NoAudioTimerFires ==
  /\ \E s \in Sessions : noAudioTimeout(s)
  /\ UNCHANGED <<now, gateVars, taskVars, busVars, apiVars, sessions, wsVars, regVars, skillVars, ttsVars>>

SilenceTimerFires ==
  /\ \E s \in Sessions : silenceTimeout(s)
  /\ UNCHANGED <<now, gateVars, taskVars, busVars, apiVars, sessions, wsVars, regVars, skillVars, ttsVars>>

\* ws.on('message') with {type: 'stop_listening'}: 'audio:process_now'.
StopListening ==
  /\ \E s \in Sessions : sessions[s] = "open" /\ processAudioNow(s)
  /\ UNCHANGED <<now, gateVars, taskVars, busVars, apiVars, sessions, wsVars, regVars, skillVars, ttsVars>>

TranscribeReturns ==
  /\ \E s \in Sessions, n \in 1..2, o \in TranscribeOutcomes : processAudioResume(s, n, o)
  /\ UNCHANGED <<now, gateVars, taskVars, busVars, apiVars, sessions, wsVars, regVars, skillVars, ttsVars>>

SegNext ==
  \/ Connect \/ Disconnect \/ AudioReceived \/ NoAudioTimerFires \/ SilenceTimerFires
  \/ StopListening \/ TranscribeReturns

SegSpec == Init /\ [][SegNext]_vars

\* ------------------------------------------------------ segmenter properties
\* Number of times the frame with this id occurs in a sequence of frames.
Count(frames, id) == Cardinality({n \in 1..Len(frames) : frames[n].id = id})

RECURSIVE CountInFlushes(_, _)
CountInFlushes(fl, id) ==
  IF fl = << >> THEN 0 ELSE Count(Head(fl).frames, id) + CountInFlushes(Tail(fl), id)

\* The frames fed since the session entered Speaking or last tried a flush
\* hold at least one frame above the threshold and reach the minimum length.
SpeechSegment(s) ==
  /\ \E n \in 1..Len(segment[s]) : segment[s][n].level > SPEECH_THRESHOLD
  /\ ByteLength(segment[s]) >= MIN_AUDIO_BYTES

\* C6: from any state of a session, N >= 1 frames above the threshold followed
\* by silence until the silence timer expires yield exactly one utterance
\* handed to transcription, made of exactly those frames in arrival order.
C6_SilenceYieldsOneUtterance ==
  [][\A s \in Sessions :
       (silenceTimeout(s) /\ SpeechSegment(s))
         => transcribing'[s] = Append(transcribing[s], segment[s])]_vars

\* C7: a session that is Speaking with a non-empty buffer has a timer pending
\* that flushes the buffer when no further frame arrives.
C7_SpeakingHasFlushTimer ==
  \A s \in Sessions :
    (isSpeaking[s] /\ Len(audioBuffers[s]) > 0)
      => (noAudioTimers[s].pending \/ silenceTimers[s])

\* C8: a session only ever fed frames at or below the speech threshold emits
\* no utterance, buffers no frame and stays Idle.
C8_QuietSessionStaysIdle ==
  \A s \in Sessions :
    (\A l \in fed[s].levels : l <= SPEECH_THRESHOLD)
      => /\ ~isSpeaking[s]
         /\ audioBuffers[s] = << >>
         /\ flushes[s] = << >>
         /\ transcribing[s] = << >>
         /\ ~silenceTimers[s] /\ ~noAudioTimers[s].pending

\* A session was fed two frames, none above the threshold, and handled a
\* process-now trigger.
C8_Witness ==
  \E s \in Sessions :
    fed[s].n >= 2 /\ stops[s] /\ (\A l \in fed[s].levels : l <= SPEECH_THRESHOLD)

\* C9: every frame ever buffered is, at any time, either still in the buffer
\* or in exactly one flush (utterance or discard), never in both and never in
\* two flushes; a frame that arrives during a transcription stays buffered.
C9_EachFrameInExactlyOneFlush ==
  \A s \in Sessions : \A id \in accepted[s] :
    Count(audioBuffers[s], id) + CountInFlushes(flushes[s], id) = 1

\* One flush of the session has completed, a second one is being transcribed
\* and a frame that arrived meanwhile waits in the buffer.
C9_Witness ==
  \E s \in Sessions :
    Len(flushes[s]) >= 2 /\ Len(transcribing[s]) = 1 /\ Len(audioBuffers[s]) > 0

\* C10: no two flushes of a session are in progress at the same time.
C10_OneFlushAtATime == \A s \in Sessions : Len(transcribing[s]) <= 1

\* While a flush is being transcribed the silence timer expired: the session
\* is Idle and the frames of the refused flush are still buffered.
C10_Witness ==
  \E s \in Sessions :
    Len(transcribing[s]) = 1 /\ isProcessing[s] /\ ~isSpeaking[s] /\ Len(audioBuffers[s]) > 0

\* C22: a process-now trigger cancels every pending timer of the session
\* (silence and no-audio) and runs the flush at once: the session is Idle, its
\* buffer is cleared, and a buffer that reaches the floor is handed on as one
\* utterance, whatever the energy of its frames.
C22_ProcessNowCancelsTimersAndFlushes ==
  [][\A s \in Sessions :
       processAudioNow(s) =>
         /\ ~silenceTimers'[s]
         /\ ~noAudioTimers'[s].pending
         /\ ~isSpeaking'[s]
         /\ audioBuffers'[s] = << >>
         /\ ByteLength(audioBuffers[s]) >= MIN_AUDIO_BYTES
              => transcribing'[s] = Append(transcribing[s], audioBuffers[s])]_vars

\* C23: after a session's transport disconnected no silence or no-audio timer
\* of the session is pending, its audio buffer is released, and no flush of
\* the session is running.
C23_DisconnectReleasesSession ==
  \A s \in Sessions :
    sessions[s] = "closed"
      => /\ ~silenceTimers[s]
         /\ ~noAudioTimers[s].pending
         /\ audioBuffers[s] = << >>
         /\ ~isProcessing[s]

\* C24: a pending timer is canceled as soon as it is superseded: a frame
\* above the threshold cancels the silence timer, every frame cancels the
\* no-audio timer (armed again only for a Speaking session), and a flush
\* started by one of the two timers cancels the other.
C24_SupersededTimerIsCanceled ==
  [][\A s \in Sessions :
       /\ \A l \in FrameLevels, b \in FrameBytes :
            handleAudio(s, [id |-> nframes + 1, level |-> l, bytes |-> b])
              => /\ IsSpeech(l) => ~silenceTimers'[s]
                 /\ noAudioTimers'[s].pending => isSpeaking[s]
       /\ (noAudioTimeout(s) /\ isSpeaking[s] /\ Len(audioBuffers[s]) > 0)
            => ~silenceTimers'[s]
       /\ silenceTimeout(s) => ~noAudioTimers'[s].pending]_vars

\* The flushes of a session that were handed to the transcription, and those
\* that were dropped.
Utterances(s) == {n \in DOMAIN flushes[s] : flushes[s][n].kind = "utterance"}
Discards(s) == {n \in DOMAIN flushes[s] : flushes[s][n].kind = "discard"}

\* The frames of a dropped flush occur in no utterance and are not buffered.
NotCarriedOver(s) ==
  \A d \in Discards(s) : \A k \in DOMAIN flushes[s][d].frames :
    /\ \A u \in Utterances(s) : Count(flushes[s][u].frames, flushes[s][d].frames[k].id) = 0
    /\ Count(audioBuffers[s], flushes[s][d].frames[k].id) = 0

\* C25 (as stated): a flush emits an utterance only if the buffer's byte length
\* exceeds the floor of 3200 bytes; a buffer that does not exceed it is
\* dropped without transcription, and its frames are not carried over.
C25_UtteranceExceedsFloor ==
  \A s \in Sessions :
    /\ \A u \in Utterances(s) : ByteLength(flushes[s][u].frames) > MIN_AUDIO_BYTES
    /\ \A n \in DOMAIN transcribing[s] : ByteLength(transcribing[s][n]) > MIN_AUDIO_BYTES
    /\ NotCarriedOver(s)

\* C25 (amended): a flush emits an utterance only if the buffer's byte length
\* is at least the floor of 3200 bytes; a buffer shorter than the floor is
\* dropped without transcription, and its frames are not carried over.
C25_UtteranceReachesFloor ==
  \A s \in Sessions :
    /\ \A u \in Utterances(s) : ByteLength(flushes[s][u].frames) >= MIN_AUDIO_BYTES
    /\ \A d \in Discards(s) : ByteLength(flushes[s][d].frames) < MIN_AUDIO_BYTES
    /\ \A n \in DOMAIN transcribing[s] :
         /\ ByteLength(transcribing[s][n]) >= MIN_AUDIO_BYTES
         /\ \E u \in Utterances(s) : flushes[s][u].frames = transcribing[s][n]
    /\ NotCarriedOver(s)

\* A session dropped a flush of 1600 bytes, buffered a later frame, and has a
\* flush of exactly 3200 bytes at the transcription.
C25_Witness ==
  \E s \in Sessions :
    /\ \E d \in Discards(s) : ByteLength(flushes[s][d].frames) = 1600
    /\ Len(transcribing[s]) = 1
    /\ ByteLength(transcribing[s][1]) = MIN_AUDIO_BYTES

\* C26: on every exit path of a flush (empty buffer, buffer below the floor,
\* transcription with text, empty transcription, transcription error) the
\* processing flag is false once the flush ended: the flag is set exactly
\* while a flush of the session awaits its transcription.
C26_FlagClearedWhenFlushEnds ==
  \A s \in Sessions : isProcessing[s] <=> Len(transcribing[s]) > 0

\* A session dropped one flush, finished a transcribed one, and has a later
\* flush at the transcription.
C26_Witness ==
  \E s \in Sessions :
    /\ Discards(s) # {}
    /\ Cardinality(Utterances(s)) = 2
    /\ Len(transcribing[s]) = 1

\* ================================================== A2A API properties
\* The request served last asked for a task id the store does not hold, or
\* for an agent id that is not registered.
UnknownTaskAsked ==
  /\ served.req.method = "tasks/get" /\ served.req.hasParams
  /\ served.req.taskId \notin DOMAIN tasks
UnknownAgentAsked ==
  /\ served.req.method = "agents/get" /\ served.req.hasParams
  /\ served.req.agentId \notin agents

\* C27: a request for an unknown task id is answered with error code -32002
\* and one for an unknown agent id with -32001, on the REST and on the
\* JSON-RPC surface.
C27_NotFoundCodes ==
  /\ UnknownTaskAsked => Response.body.code = -32002
  /\ UnknownAgentAsked => Response.body.code = -32001

\* C28: a tasks/send request without skillId, or without its params object,
\* is rejected with error code -32602 on both surfaces, and no task is
\* created, stored or failed for it.
C28_MissingSkillIdRejected ==
  (served.req.method = "tasks/send" /\ (served.req.skillId = Null \/ ~served.req.hasParams))
    => /\ Response.body.code = -32602
       /\ served.task = 0

\* C29: a tasks/send request naming a skill without registered handler is
\* answered with a JSON-RPC error response of code -32003.
C29_UnknownSkillCode ==
  (/\ served.req.method = "tasks/send"
   /\ served.req.hasParams
   /\ served.req.skillId # Null
   /\ served.req.skillId \notin agentHandlers)
    => Response.body.code = -32003

\* What a request comes to: the error code and result of an immediate reply,
\* or the arguments the task is created with.
Outcome(plan) == [kind |-> plan.kind, code |-> plan.body.code,
                  result |-> plan.body.result, args |-> plan.args]

\* C30: for every request both surfaces can express and every state of the
\* registry and the task store, the REST route and the JSON-RPC method come to
\* the same outcome: same result, same error code, same task stored.
C30_RestMirrorsRpc ==
  \A c \in Calls :
    served.req \in {AsRest(c), AsRpc(c)}
      => Outcome(route(AsRest(c))) = Outcome(route(AsRpc(c)))

\* ==================================================== CLIENT CONNECTIONS
\* wss.on('connection'): every connection has its own session id and its own
\* WebSocket; the connection named s is the one whose session id is s (the id
\* is built from Date.now() and nine random base-36 digits and is taken to be
\* fresh). readyState is "NONE" before the connection, then "OPEN", then
\* "CLOSED" (CLOSING and CLOSED are not told apart: both differ from OPEN).

\* Session ids carried by published data: "api" is the id of tasks sent over
\* the HTTP API, which no connection has.
PublishedSessions == Sessions \cup {"api"}

\* The callback sendToClient(event, handler) subscribes for the connection of
\* sessionId: it closes over sessionId and ws. It does not throw: the payload
\* is an object and ws.send is called on an open socket only.
sendToClient(sessionId, event) ==
  [id |-> <<sessionId, event>>, throws |-> FALSE, sessionId |-> sessionId]

deliversInAnyState(callback, data) == data.sessionId = callback.sessionId

\* if (data.sessionId === sessionId && ws.readyState === WebSocket.OPEN)
delivers(callback, data) ==
  /\ data.sessionId = callback.sessionId
  /\ readyState[callback.sessionId] = "OPEN"

\* The ws.send calls the callbacks hs make when called with data, in order:
\* transport names the WebSocket written to, readyState and registered what
\* that socket's state and its entry in orchestrator.sessions were then.
RECURSIVE wsSend(_, _, _)
wsSend(hs, event, data) ==
  IF hs = << >> THEN << >>
  ELSE (IF delivers(Head(hs), data)
          THEN <<[transport |-> Head(hs).sessionId, event |-> event,
                  sessionId |-> data.sessionId,
                  readyState |-> readyState[Head(hs).sessionId],
                  registered |-> sessions[Head(hs).sessionId]]>>
          ELSE << >>) \o wsSend(Tail(hs), event, data)

\* wss.on('connection'): registerSession, then the four sendToClient calls.
WsConnect ==
  /\ \E s \in Sessions :
       /\ registerSession(s)
       /\ readyState' = [readyState EXCEPT ![s] = "OPEN"]
       /\ subscribers' = [e \in ClientEvents |->
                            Append(subscribers[e], sendToClient(s, e))]
  /\ UNCHANGED <<now, gateVars, taskVars, speechVars, published, invoked, apiVars, wire, regVars, skillVars, ttsVars>>

\* The socket leaves the OPEN state (the peer or the network closes it); the
\* 'close' event has not been handled yet.
WsLeavesOpen ==
  /\ \E s \in Sessions :
       /\ readyState[s] = "OPEN"
       /\ readyState' = [readyState EXCEPT ![s] = "CLOSED"]
  /\ UNCHANGED <<now, gateVars, taskVars, segVars, busVars, apiVars, wire, regVars, skillVars, ttsVars>>

\* ws.on('close')
WsClose ==
  /\ \E s \in Sessions :
       /\ readyState[s] = "CLOSED"
       /\ removeSession(s)
  /\ UNCHANGED <<now, gateVars, taskVars, speechVars, busVars, apiVars, wsVars, regVars, skillVars, ttsVars>>

\* An agent publishes a client-bound event for a session.
WsPublish ==
  /\ \E e \in ClientEvents, s \in PublishedSessions, d \in BusData :
       LET data == [sessionId |-> s, payload |-> d]
       IN /\ publish(e, data)
          /\ wire' = wsSend(subscribers[e], e, data)
  /\ UNCHANGED <<now, gateVars, taskVars, segVars, apiVars, readyState, regVars, skillVars, ttsVars>>

WsNext == WsConnect \/ WsLeavesOpen \/ WsClose \/ WsPublish
WsSpec == Init /\ [][WsNext]_vars

\* C31: a client-bound event published with session id s is written to the
\* WebSocket of the connection registered for s only, at most once per
\* publish, and only while that socket is open; no other connection's socket
\* is written to.
C31_EventReachesOwnOpenTransportOnce ==
  /\ Len(wire) <= 1
  /\ \A n \in DOMAIN wire :
       /\ wire[n].event = published.event
       /\ wire[n].sessionId = published.data.sessionId
       /\ wire[n].transport = wire[n].sessionId
       /\ wire[n].registered = "open"
       /\ wire[n].readyState = "OPEN"

\* Both connections are open and an event for s2 went to s2's socket alone.
C31_Witness ==
  /\ Len(wire) = 1
  /\ wire[1].transport = "s2"
  /\ readyState["s1"] = "OPEN"
  /\ Len(published.handlers) = 2

\* ===================================================== SESSION ISOLATION
\* The segmenter together with the Response Gate's own operations, for the
\* claim that sessions do not touch each other's entries.

\* responseManager.lock(sessionId), called once canRespond(sessionId) held.
GateLock ==
  /\ \E s \in Sessions :
       /\ canRespond(s)
       /\ pendingResponses' = lock(pendingResponses, s)
       /\ UNCHANGED <<lastResponseTime, handlers>>
  /\ UNCHANGED <<now, taskVars, segVars, busVars, apiVars, wsVars, regVars, skillVars, ttsVars>>

\* responseManager.unlock(sessionId)
GateUnlock ==
  /\ \E s \in Sessions :
       /\ pendingResponses' = unlockPending(pendingResponses, s)
       /\ lastResponseTime' = unlockTime(lastResponseTime, s)
       /\ UNCHANGED handlers
  /\ UNCHANGED <<now, taskVars, segVars, busVars, apiVars, wsVars, regVars, skillVars, ttsVars>>

\* ws.on('message') with a binary frame: 'audio:received'.
IsoAudioReceived ==
  /\ nframes < MaxIsoFrames
  /\ AudioReceived

IsoNext ==
  \/ Connect \/ IsoAudioReceived \/ NoAudioTimerFires \/ SilenceTimerFires
  \/ StopListening \/ TranscribeReturns \/ GateLock \/ GateUnlock

IsoSpec == Init /\ [][IsoNext]_vars

\* The per-session entries of the segmenter and of the gate.
Entry(s) ==
  <<audioBuffers[s], isSpeaking[s], isProcessing[s], silenceTimers[s], noAudioTimers[s],
    pendingResponses[s], lastResponseTime[s]>>

\* One segmenter operation for session a: frame arrival, timer expiry,
\* process-now, or the end of a flush.
SegmenterOperation(a) ==
  /\ \/ \E l \in FrameLevels, b \in FrameBytes :
          handleAudio(a, [id |-> nframes + 1, level |-> l, bytes |-> b])
     \/ noAudioTimeout(a)
     \/ silenceTimeout(a)
     \/ processAudioNow(a)
     \/ \E n \in 1..2, o \in TranscribeOutcomes : processAudioResume(a, n, o)
  /\ UNCHANGED <<now, gateVars, taskVars, busVars, apiVars, sessions, wsVars, regVars, skillVars, ttsVars>>

\* One gate operation for session a: lock or unlock.
GateOperation(a) ==
  /\ \/ pendingResponses' = lock(pendingResponses, a) /\ UNCHANGED lastResponseTime
     \/ /\ pendingResponses' = unlockPending(pendingResponses, a)
        /\ lastResponseTime' = unlockTime(lastResponseTime, a)
  /\ UNCHANGED <<now, handlers, taskVars, segVars, busVars, apiVars, wsVars, regVars, skillVars, ttsVars>>

\* C32: a segmenter or gate operation for session a leaves the buffer, the
\* speaking and processing flags, the pending timers and the gate entry of
\* every other session b as they were.
C32_OperationLeavesOtherSessionsAlone ==
  [][\A a \in Sessions :
       (SegmenterOperation(a) \/ GateOperation(a))
         => \A b \in Sessions \ {a} : Entry(b)' = Entry(b)]_vars

\* Session s2 is speaking with a frame buffered and its gate locked, while s1
\* has flushed an utterance and unlocked its gate.
C32_Witness ==
  /\ isSpeaking["s2"] /\ audioBuffers["s2"] # << >>
  /\ pendingResponses["s2"]
  /\ flushes["s1"] # << >> /\ lastResponseTime["s1"] # Absent

\* ======================================================== AGENT REGISTRY
\* The handler functions of the n-th registerAgent call: the call supplies a
\* function for each skill id of supplied, and nothing for the others.
HandlersObject(n, supplied) ==
  [k \in SkillIds |-> IF k \in supplied THEN <<[registration |-> n, skillId |-> k]>> ELSE << >>]

\* A registerAgent that keeps a handler already registered for the skill.
registerAgentKeepsFirst(agentId, card, handlersObject) ==
  /\ agentCards' = [agentCards EXCEPT ![agentId] = <<card>>]
  /\ skillHandlers' = [k \in SkillIds |->
       IF k \in card.skills /\ handlersObject[k] # << >> /\ skillHandlers[k] = << >>
         THEN handlersObject[k] ELSE skillHandlers[k]]

\* registerAgent(agentId, card, handlers = {})
registerAgent(agentId, card, handlersObject) ==
  /\ agentCards' = [agentCards EXCEPT ![agentId] = <<card>>]
  /\ skillHandlers' = [k \in SkillIds |->
       IF k \in card.skills /\ handlersObject[k] # << >>
         THEN handlersObject[k] ELSE skillHandlers[k]]

\* sendTask: const handler = this.agentHandlers.get(skillId)
handlerLookup(skillId) == skillHandlers[skillId]

RegisterAgent ==
  /\ Len(registrations) < MaxRegistrations
  /\ \E a \in AgentIds, declared \in SUBSET SkillIds, supplied \in SUBSET SkillIds :
       LET card == [name |-> a, skills |-> declared]
           hs == HandlersObject(Len(registrations) + 1, supplied)
       IN /\ registerAgent(a, card, hs)
          /\ registrations' = Append(registrations, [agentId |-> a, card |-> card, handlers |-> hs])
  /\ UNCHANGED <<now, gateVars, taskVars, segVars, busVars, apiVars, wsVars, dispatched, skillVars, ttsVars>>

Dispatch ==
  /\ \E k \in SkillIds :
       dispatched' = [skillId |-> k, handler |-> handlerLookup(k),
                      registered |-> Len(registrations)]
  /\ UNCHANGED <<now, gateVars, taskVars, segVars, busVars, apiVars, wsVars,
                 agentCards, skillHandlers, registrations, skillVars, ttsVars>>

RegNext == RegisterAgent \/ Dispatch
RegSpec == Init /\ [][RegNext]_vars

\* The registrations among the first n whose card declares k and which supply
\* a handler for k, and the handler the latest of them supplies.
Registering(k, n) ==
  {m \in 1..n : k \in registrations[m].card.skills /\ registrations[m].handlers[k] # << >>}

LatestHandler(k, n) ==
  IF Registering(k, n) = {} THEN << >>
  ELSE LET m == CHOOSE x \in Registering(k, n) : \A y \in Registering(k, n) : y <= x
       IN registrations[m].handlers[k]

\* C33: dispatching skill id k finds the handler of the most recent
\* registration whose card declared k and which supplied a handler for k (none
\* if there is no such registration); a handler supplied for a skill id the
\* card does not declare is not registered.
C33_DispatchFindsLatestDeclaredHandler ==
  /\ \A k \in SkillIds : skillHandlers[k] = LatestHandler(k, Len(registrations))
  /\ dispatched.skillId # Null
       => dispatched.handler = LatestHandler(dispatched.skillId, dispatched.registered)

\* Two registrations declared and supplied play_music, the second also supplied
\* pause without declaring it; play_music was then dispatched.
C33_Witness ==
  /\ Len(registrations) = 2
  /\ Registering("play_music", 2) = {1, 2}
  /\ registrations[2].handlers["pause"] # << >>
  /\ "pause" \notin registrations[2].card.skills
  /\ dispatched.skillId = "play_music"
  /\ dispatched.handler = <<[registration |-> 2, skillId |-> "play_music"]>>

\* C34: when an idle session receives a frame above the speech threshold,
\* that same step makes the session speaking, appends the frame to its buffer,
\* publishes exactly one listening-state notification for it and arms the
\* no-audio failsafe timer.
C34_IdleSpeechFrameStartsSpeaking ==
  [][\A s \in Sessions, l \in FrameLevels, b \in FrameBytes :
       LET frame == [id |-> nframes + 1, level |-> l, bytes |-> b]
       IN (handleAudio(s, frame) /\ ~isSpeaking[s] /\ IsSpeech(l))
            => /\ isSpeaking'[s]
               /\ audioBuffers'[s] = Append(audioBuffers[s], frame)
               /\ Len(handleAudioPublishes(s, frame)) = 1
               /\ noAudioTimers'[s].pending]_vars

\* C35: a session that is idle (not speaking) and has no flush in progress has
\* an empty audio buffer; a timer expiry during an earlier flush does not
\* leave frames behind in an idle session.
C35_IdleWithoutFlushHasEmptyBuffer ==
  \A s \in Sessions :
    (~isSpeaking[s] /\ ~isProcessing[s] /\ transcribing[s] = << >>)
      => audioBuffers[s] = << >>

\* ============================================ SKILL HANDLERS AND THE GATE
\* Skills registered by the ConversationAgent and the SpotifyAgent. The
\* handler of 'generate_response' is generateChatResponse(sessionId,
\* input.text), the function handleTranscript's chat branch awaits.
PipelineSkills == {"generate_response", "parse_intent", "play_music"}

\* sendTask(skillId, input, sessionId) up to the first await of its handler.
sendTaskCallsHandler(skillId, sessionId) ==
  /\ skillCall.pc = "none"
  /\ skillCall' = [pc |-> "awaiting", skillId |-> skillId, sessionId |-> sessionId]
  /\ UNCHANGED gateVars

\* The handler's awaited call settles. generateChatResponse then publishes
\* 'response:ready' and calls responseManager.unlock(sessionId); the other
\* handlers return their result; a throw leaves the handler at once.
skillHandlerResumes(outcome) ==
  /\ skillCall.pc = "awaiting"
  /\ skillCall' = [skillCall EXCEPT !.pc = IF outcome = "ok" THEN "completed" ELSE "failed"]
  /\ IF outcome = "ok" /\ skillCall.skillId = "generate_response"
       THEN /\ pendingResponses' = unlockPending(pendingResponses, skillCall.sessionId)
            /\ lastResponseTime' = unlockTime(lastResponseTime, skillCall.sessionId)
            /\ UNCHANGED handlers
       ELSE UNCHANGED gateVars

SendSkillTask ==
  /\ \E k \in PipelineSkills, s \in Sessions : sendTaskCallsHandler(k, s)
  /\ UNCHANGED <<now, taskVars, segVars, busVars, apiVars, wsVars, regVars, ttsVars>>

SkillHandlerReturns ==
  /\ \E o \in CallOutcomes : skillHandlerResumes(o)
  /\ UNCHANGED <<now, taskVars, segVars, busVars, apiVars, wsVars, regVars, ttsVars>>

GateSkillNext == GateNext \/ SendSkillTask \/ SkillHandlerReturns
GateSkillSpec == Init /\ [][GateSkillNext]_vars

\* C36: no step of a task dispatched through sendTask changes the Response
\* Gate: the pending locks and the last-unlock timestamps stay as they were.
C36_SendTaskLeavesGateAlone ==
  [][skillCall' # skillCall => UNCHANGED <<pendingResponses, lastResponseTime>>]_vars

\* A transcript handler that passed the noise filter and the debounce test.
Accepted(h) == handlers[h].locks > 0

\* C37: every accepted transcript leads to exactly one 'response:ready' event
\* and exactly one unlock of its session, on every route (intent-detection
\* failure, Spotify command success or failure, chat response): neither count
\* ever exceeds one, and both reach one.
C37_AcceptedTranscriptAnsweredOnce ==
  /\ [](\A h \in Handlers : handlers[h].responses <= 1 /\ handlers[h].unlocks <= 1)
  /\ \A h \in Handlers :
       Accepted(h) ~> [](handlers[h].responses = 1 /\ handlers[h].unlocks = 1)

\* Both handlers were accepted and have finished, each with one response and
\* one unlock, for different sessions.
C37_Witness ==
  /\ \A h \in Handlers :
       /\ Accepted(h) /\ handlers[h].pc = "done"
       /\ handlers[h].responses = 1 /\ handlers[h].unlocks = 1
  /\ handlers[1].session # handlers[2].session

\* ======================================================= SPEECH SYNTHESIS
\* SpeechAgent.generateSpeech, the subscriber of 'response:ready'. The pc of an
\* invocation: "ignored" (no text), "skipped" (TTS already in progress), "tts"
\* (awaiting openai.audio.speech.create), "playing" ('client:audio' and the
\* assistant 'client:transcript' are published, the playback timer is armed),
\* "done" (the timer has fired), "failed" (the catch block has run).
ResponseTexts == {"", "Music paused"}

\* generateSpeech(data) up to its first await.
generateSpeech(s, text) ==
  IF text = ""
    THEN /\ speech' = Append(speech, [session |-> s, text |-> text, pc |-> "ignored"])
         /\ UNCHANGED <<ttsSpeaking, echo>>
    ELSE IF ttsSpeaking[s]
      THEN /\ speech' = Append(speech, [session |-> s, text |-> text, pc |-> "skipped"])
           /\ UNCHANGED <<ttsSpeaking, echo>>
      ELSE /\ ttsSpeaking' = [ttsSpeaking EXCEPT ![s] = TRUE]
           /\ echo' = [echo EXCEPT ![s] = Append(@, TRUE)]
           /\ speech' = Append(speech, [session |-> s, text |-> text, pc |-> "tts"])

\* A catch block that leaves the echo suppression and the guard as they are.
generateSpeechCatchKeepsGuard(i) ==
  /\ speech' = [speech EXCEPT ![i].pc = "failed"]
  /\ UNCHANGED <<ttsSpeaking, echo>>

\* The catch block of generateSpeech.
generateSpeechCatch(i) ==
  /\ echo' = [echo EXCEPT ![speech[i].session] = Append(@, FALSE)]
  /\ ttsSpeaking' = [ttsSpeaking EXCEPT ![speech[i].session] = FALSE]
  /\ speech' = [speech EXCEPT ![i].pc = "failed"]

\* Continuation of generateSpeech after the awaited TTS call.
generateSpeechResume(i, outcome) ==
  /\ i \in DOMAIN speech
  /\ speech[i].pc = "tts"
  /\ IF outcome = "throw"
       THEN generateSpeechCatch(i)
       ELSE /\ speech' = [speech EXCEPT ![i].pc = "playing"]
            /\ UNCHANGED <<ttsSpeaking, echo>>

\* The callback of setTimeout(..., estimatedDuration).
playbackTimeout(i) ==
  /\ i \in DOMAIN speech
  /\ speech[i].pc = "playing"
  /\ echo' = [echo EXCEPT ![speech[i].session] = Append(@, FALSE)]
  /\ ttsSpeaking' = [ttsSpeaking EXCEPT ![speech[i].session] = FALSE]
  /\ speech' = [speech EXCEPT ![i].pc = "done"]

ResponseReady ==
  /\ Len(speech) < MaxResponses
  /\ \E s \in Sessions, text \in ResponseTexts : generateSpeech(s, text)
  /\ UNCHANGED <<now, gateVars, taskVars, segVars, busVars, apiVars, wsVars, regVars, skillVars>>

TtsReturns ==
  /\ \E i \in 1..MaxResponses, o \in CallOutcomes : generateSpeechResume(i, o)
  /\ UNCHANGED <<now, gateVars, taskVars, segVars, busVars, apiVars, wsVars, regVars, skillVars>>

PlaybackTimerFires ==
  /\ \E i \in 1..MaxResponses : playbackTimeout(i)
  /\ UNCHANGED <<now, gateVars, taskVars, segVars, busVars, apiVars, wsVars, regVars, skillVars>>

TtsNext == ResponseReady \/ TtsReturns \/ PlaybackTimerFires
TtsSpec == Init /\ [][TtsNext]_vars

\* The TTS call returns or throws, and the playback timer fires.
TtsFairSpec == TtsSpec /\ WF_vars(TtsReturns) /\ WF_vars(PlaybackTimerFires)

\* C38: every 'response:ready' event with non-empty text leads to the
\* assistant 'client:transcript' and the 'client:audio' message of its session
\* unless its text-to-speech call fails, also when it arrives while an earlier
\* response of the session is still being spoken.
C38_ResponseIsSpoken ==
  \A i \in 1..MaxResponses :
    (i \in DOMAIN speech /\ speech[i].text # "")
      ~> (i \in DOMAIN speech /\ speech[i].pc \in {"playing", "done", "failed"})

\* The session's last 'client:echo_suppress' event had suppress = true.
Suppressed(s) == echo[s] # << >> /\ echo[s][Len(echo[s])]

\* The TTS generations of session s that have started and not yet ended.
Generating(s) == {i \in DOMAIN speech : speech[i].session = s /\ speech[i].pc \in {"tts", "playing"}}

\* C39: every 'client:echo_suppress' event with suppress = true is eventually
\* followed by one with suppress = false for the same session, with the
\* session's TTS guard cleared then, on the success path (playback timer) and
\* on the error path; between the two events exactly the one TTS generation
\* that published the first is running, and the events alternate.
C39_EchoSuppressIsReleased ==
  /\ \A s \in Sessions : Suppressed(s) ~> (~Suppressed(s) /\ ~ttsSpeaking[s])
  /\ [](\A s \in Sessions :
          /\ Suppressed(s) <=> ttsSpeaking[s]
          /\ Cardinality(Generating(s)) = (IF Suppressed(s) THEN 1 ELSE 0)
          /\ \A n \in DOMAIN echo[s] : echo[s][n] <=> (n % 2 = 1))

\* Session s1 was released twice, once by the playback timer and once by the
\* catch block, and a response that arrived in between was skipped.
C39_Witness ==
  /\ echo["s1"] = <<TRUE, FALSE, TRUE, FALSE>>
  /\ \E i, j, k \in DOMAIN speech :
       /\ speech[i].pc = "done" /\ speech[j].pc = "failed" /\ speech[k].pc = "skipped"
       /\ speech[i].session = "s1" /\ speech[j].session = "s1" /\ speech[k].session = "s1"

\* C40: a session with a pending silence timer is speaking and has a non-empty
\* audio buffer.
C40_SilenceTimerImpliesSpeakingWithAudio ==
  \A s \in Sessions : silenceTimers[s] => (isSpeaking[s] /\ audioBuffers[s] # << >>)

\* Session s1 has a silence timer pending for audio buffered after an earlier
\* stop_listening flushed its first frame.
C40_Witness ==
  /\ silenceTimers["s1"] /\ stops["s1"]
  /\ flushes["s1"] # << >>
  /\ Len(audioBuffers["s1"]) = 1

====
